---- MODULE Spec2Model ----
(***************************************************************************)
(* JobAutoFlow: match scoring (matching.service.ts) and the application    *)
(* controller's createApplication / autoApply / deleteApplication handlers *)
(* together with the job controller's toggleFavorite / hideJob, over the   *)
(* PostgreSQL tables applications, job_match_cache, user_preferences and   *)
(* jobs.                                                                   *)
(***************************************************************************)
EXTENDS Integers, Sequences, FiniteSets, Bags, TLC

VARIABLES
    \* ---- scorer (matching.service.ts) ----
    profile,        \* the UserProfile handed to the scorer
    job,            \* the Job handed to the scorer
    aiOutcome,      \* what the OpenAI call produced for this invocation
    result,         \* <<>> before the call returns, <<MatchResult>> after
    raised,         \* TRUE when the call rejected instead of returning
    \* ---- batchCalculateMatchScores (matching.service.ts:224-249) ----
    jobs,           \* the Job[] argument
    results,        \* the Map<job id, MatchResult> being filled
    i,              \* the loop variable
    pending,        \* indexes of jobs whose calculateMatchScore is in flight
    aiOutcomes,     \* per job index, what its OpenAI call produced
    batchPc,        \* where the batch function stands
    \* ---- the database and the HTTP requests in flight ----
    applications,   \* table applications, a bag of rows
    jobMatchCache,  \* table job_match_cache, a bag of rows
    userPreferences,\* table user_preferences: user id -> None or Some(row)
    applicationCount,\* table jobs: job id -> jobs.application_count
    clock,          \* the current calendar day of the server (SpecToday: the instant)
    requests,       \* request slot -> the handler running in it and its locals
    started         \* number of requests received so far

scorerVars == <<profile, job, aiOutcome, result, raised>>
batchVars == <<jobs, results, i, pending, aiOutcomes, batchPc>>
dbVars == <<applications, jobMatchCache, userPreferences, applicationCount,
            clock, requests, started>>

vars == <<profile, job, aiOutcome, result, raised,
          jobs, results, i, pending, aiOutcomes, batchPc,
          applications, jobMatchCache, userPreferences, applicationCount,
          clock, requests, started>>

(***************************************************************************)
(* Optional values: a nullable column or an optional JSON field is a       *)
(* sequence of length 0 (null / undefined) or 1.                           *)
(***************************************************************************)
None == <<>>
Some(v) == <<v>>
IsSome(o) == o # <<>>
Val(o) == o[1]

(***************************************************************************)
(* Strings are sequences of characters; toLowerCase and includes are       *)
(* computed on the characters.                                             *)
(***************************************************************************)
LowerChar(c) ==
    CASE c = "A" -> "a"
      [] c = "B" -> "b"
      [] c = "C" -> "c"
      [] c = "D" -> "d"
      [] OTHER -> c

toLowerCase(s) == [k \in 1..Len(s) |-> LowerChar(s[k])]

\* String.prototype.includes: t occurs in s as a contiguous substring
includes(s, t) ==
    \E off \in 0..(Len(s) - Len(t)) :
        \A k \in 1..Len(t) : s[off + k] = t[k]

\* Math.round of the rational n/d (d > 0): floor(n/d + 1/2)
RoundDiv(n, d) == (2 * n + d) \div (2 * d)

\* Array.prototype.filter
filter(xs, Keep(_)) == SelectSeq(xs, Keep)

\* Array.prototype.some
some(xs, P(_)) == \E k \in 1..Len(xs) : P(xs[k])

(***************************************************************************)
(* MatchResult (matching.service.ts:14-24).  score is Num(n) or NaN, since *)
(* Math.round of a non-number yields NaN; the detail figures are numbers.  *)
(* A reason is its text with the interpolated count (0 when it has none).  *)
(***************************************************************************)
NaN == <<>>
Num(n) == <<n>>

Reason(text) == [text |-> text, n |-> 0]
ReasonMatches(n) == [text |-> "Matches n required skills", n |-> n]

\* const expMap (matching.service.ts:159-164), an absent key reads undefined
ExpLevels == {"ENTRY", "MID", "SENIOR", "EXECUTIVE"}
expMap(level) ==
    CASE level = "ENTRY" -> Some(0)
      [] level = "MID" -> Some(3)
      [] level = "SENIOR" -> Some(5)
      [] level = "EXECUTIVE" -> Some(8)
      [] OTHER -> None

\* ---- the five blocks of calculateBasicMatchScore ----

\* profile.skills?.length && job.skillsRequired?.length
SkillsApplies(p, j) ==
    /\ IsSome(p.skills) /\ Len(Val(p.skills)) > 0
    /\ IsSome(j.skillsRequired) /\ Len(Val(j.skillsRequired)) > 0

SkillMatchesReq(skill, req) ==
    \/ includes(toLowerCase(req), toLowerCase(skill))
    \/ includes(toLowerCase(skill), toLowerCase(req))

\* a filter whose test is negated
matchingSkillsNegated(p, j) ==
    filter(Val(p.skills),
           LAMBDA skill : ~some(Val(j.skillsRequired),
                                LAMBDA req : SkillMatchesReq(skill, req)))

matchingSkills(p, j) ==
    filter(Val(p.skills),
           LAMBDA skill : some(Val(j.skillsRequired),
                               LAMBDA req : SkillMatchesReq(skill, req)))

skillsMatch(p, j) ==
    IF SkillsApplies(p, j)
    THEN RoundDiv(Len(matchingSkills(p, j)) * 100, Len(Val(j.skillsRequired)))
    ELSE 0

skillsReasons(p, j) ==
    IF SkillsApplies(p, j) /\ Len(matchingSkills(p, j)) > 0
    THEN <<ReasonMatches(Len(matchingSkills(p, j)))>>
    ELSE <<>>

\* profile.experienceYears && job.experienceLevel: 0 years is falsy
ExperienceApplies(p, j) ==
    /\ IsSome(p.experienceYears) /\ Val(p.experienceYears) # 0
    /\ IsSome(j.experienceLevel)

\* expMap[job.experienceLevel] || 0
requiredExp(j) ==
    LET e == expMap(Val(j.experienceLevel))
    IN IF IsSome(e) THEN Val(e) ELSE 0

ExperienceMeets(p, j) ==
    ExperienceApplies(p, j) /\ Val(p.experienceYears) >= requiredExp(j)

experienceMatch(p, j) ==
    IF ~ExperienceApplies(p, j) THEN 0
    ELSE IF ExperienceMeets(p, j) THEN 100
    ELSE RoundDiv(Val(p.experienceYears) * 100, requiredExp(j))

experienceReasons(p, j) ==
    IF ExperienceMeets(p, j)
    THEN <<Reason("Experience level matches requirements")>>
    ELSE <<>>

\* profile.salaryMin && job.salaryMax: 0 is falsy
SalaryApplies(p, j) ==
    /\ IsSome(p.salaryMin) /\ Val(p.salaryMin) # 0
    /\ IsSome(j.salaryMax) /\ Val(j.salaryMax) # 0

SalaryAligns(p, j) ==
    SalaryApplies(p, j) /\ Val(p.salaryMin) <= Val(j.salaryMax)

salaryMatch(p, j) ==
    IF ~SalaryApplies(p, j) THEN 0
    ELSE IF SalaryAligns(p, j) THEN 100
    ELSE RoundDiv(Val(j.salaryMax) * 100, Val(p.salaryMin))

salaryReasons(p, j) ==
    IF SalaryAligns(p, j) THEN <<Reason("Salary expectations align")>> ELSE <<>>

\* profile.location && job.location: the empty string is falsy
LocationApplies(p, j) ==
    /\ IsSome(p.location) /\ Len(Val(p.location)) > 0
    /\ IsSome(j.location) /\ Len(Val(j.location)) > 0

LocationSame(p, j) ==
    LET profileLoc == toLowerCase(Val(p.location))
        jobLoc == toLowerCase(Val(j.location))
    IN \/ profileLoc = jobLoc
       \/ includes(jobLoc, profileLoc)
       \/ includes(profileLoc, jobLoc)

IsRemote(j) == IsSome(j.locationType) /\ Val(j.locationType) = "REMOTE"

locationMatch(p, j) ==
    IF ~LocationApplies(p, j) THEN 0
    ELSE IF LocationSame(p, j) THEN 100
    ELSE IF IsRemote(j) THEN 80
    ELSE 0

locationReasons(p, j) ==
    IF ~LocationApplies(p, j) THEN <<>>
    ELSE IF LocationSame(p, j) THEN <<Reason("Location matches preference")>>
    ELSE IF IsRemote(j) THEN <<Reason("Remote position available")>>
    ELSE <<>>

\* profile.preferredRoles?.length, then some(role => title.includes(role))
RoleApplies(p) == IsSome(p.preferredRoles) /\ Len(Val(p.preferredRoles)) > 0

\* a comparison that forgets toLowerCase
titleMatchCaseSensitive(p, j) ==
    /\ RoleApplies(p)
    /\ some(Val(p.preferredRoles), LAMBDA role : includes(j.title, role))

titleMatch(p, j) ==
    /\ RoleApplies(p)
    /\ some(Val(p.preferredRoles),
            LAMBDA role : includes(toLowerCase(j.title), toLowerCase(role)))

overallFit(p, j) == IF titleMatch(p, j) THEN 100 ELSE 0

roleReasons(p, j) ==
    IF titleMatch(p, j)
    THEN <<Reason("Job title matches preferred roles")>>
    ELSE <<>>

(***************************************************************************)
(* The running sum score += sub * weight is kept in tenths (weights 4, 2,  *)
(* 2, 1, 1 over 10).  Every term is an even number of tenths, so           *)
(* Math.round never meets a tie and the floating-point sum rounds as the   *)
(* exact one does.                                                         *)
(***************************************************************************)
\* a sum that weighs the five sub-scores equally
scoreTenthsEqualWeights(p, j) ==
    skillsMatch(p, j) * 2 + experienceMatch(p, j) * 2 + salaryMatch(p, j) * 2
        + locationMatch(p, j) * 2 + overallFit(p, j) * 2

scoreTenths(p, j) ==
    skillsMatch(p, j) * 4 + experienceMatch(p, j) * 2 + salaryMatch(p, j) * 2
        + locationMatch(p, j) * 1 + overallFit(p, j) * 1

\* the salary block moved in front of the experience block
basicReasonsSalaryFirst(p, j) ==
    skillsReasons(p, j) \o salaryReasons(p, j) \o experienceReasons(p, j)
        \o locationReasons(p, j) \o roleReasons(p, j)

basicReasons(p, j) ==
    skillsReasons(p, j) \o experienceReasons(p, j) \o salaryReasons(p, j)
        \o locationReasons(p, j) \o roleReasons(p, j)

calculateBasicMatchScore(p, j) ==
    [ score |-> Num(RoundDiv(scoreTenths(p, j), 10)),
      reasons |-> IF Len(basicReasons(p, j)) > 0 THEN basicReasons(p, j)
                  ELSE <<Reason("General profile match")>>,
      details |-> [ skillsMatch |-> skillsMatch(p, j),
                    experienceMatch |-> experienceMatch(p, j),
                    salaryMatch |-> salaryMatch(p, j),
                    locationMatch |-> locationMatch(p, j),
                    overallFit |-> overallFit(p, j) ] ]

(***************************************************************************)
(* calculateMatchScore (matching.service.ts:29-78).  The OpenAI call ends  *)
(* in one of:                                                              *)
(*   NetworkError   openai.chat.completions.create rejects                 *)
(*   NoContent      choices[0]?.message?.content is undefined, null or ""  *)
(*   MalformedJSON  JSON.parse(content) throws                             *)
(*   JsonNull       content is the text null: parsed.score throws          *)
(*   Json           content parses to an object; score is its "score"      *)
(*                  field in tenths (None when absent), reasons and        *)
(*                  details its other fields (None when absent).           *)
(***************************************************************************)
NoField == [ skillsMatch |-> None, experienceMatch |-> None, salaryMatch |-> None,
             locationMatch |-> None, overallFit |-> None ]

AiFailure(kind) == [kind |-> kind, score |-> None, reasons |-> None, details |-> None]
AiJson(score, reasons, details) ==
    [kind |-> "Json", score |-> score, reasons |-> reasons, details |-> details]

\* the statements of the try block throw
TryThrows(ai) == ai.kind \in {"NetworkError", "NoContent", "MalformedJSON", "JsonNull"}

\* x || 0 on an optional number
OrZero(o) == IF IsSome(o) /\ Val(o) # 0 THEN Val(o) ELSE 0

\* the object literal returned at matching.service.ts:61-71
parsedResult(ai) ==
    LET d == IF IsSome(ai.details) THEN Val(ai.details) ELSE NoField
    IN [ score |-> IF IsSome(ai.score) THEN Num(RoundDiv(Val(ai.score), 10)) ELSE NaN,
         reasons |-> IF IsSome(ai.reasons) THEN Val(ai.reasons) ELSE <<>>,
         details |-> [ skillsMatch |-> OrZero(d.skillsMatch),
                       experienceMatch |-> OrZero(d.experienceMatch),
                       salaryMatch |-> OrZero(d.salaryMatch),
                       locationMatch |-> OrZero(d.locationMatch),
                       overallFit |-> OrZero(d.overallFit) ] ]

\* what a call ends in: a returned value or a thrown error
Thrown == [threw |-> TRUE, value |-> None]
Returned(v) == [threw |-> FALSE, value |-> Some(v)]

\* the try block, matching.service.ts:33-71
tryBlock(ai) == IF TryThrows(ai) THEN Thrown ELSE Returned(parsedResult(ai))

\* try { ... } catch (error) { return calculateBasicMatchScore(profile, job) }
calculateMatchScore(p, j, ai) ==
    IF tryBlock(ai).threw THEN Returned(calculateBasicMatchScore(p, j))
    ELSE tryBlock(ai)

(***************************************************************************)
(* Inputs of the scorer.                                                   *)
(***************************************************************************)
MaxSkills == 2

SeqsUpTo(S, n) == UNION {[1..k -> S] : k \in 0..n}
Optional(S) == {None} \cup {Some(v) : v \in S}

ProfileSkillStrs == {<<"A">>, <<"c", "d">>}
JobSkillLists ==
    {<<>>, << <<"a", "c", "d">> >>, << <<"c">> >>, << <<"a", "c", "d">>, <<"c">> >>}

Profiles ==
    [ skills : Optional(SeqsUpTo(ProfileSkillStrs, MaxSkills)),
      experienceYears : Optional({0, 4}),
      salaryMin : Optional({0, 100}),
      location : Optional({<<"A", "B">>}),
      preferredRoles : Optional({<<>>, << <<"A">> >>, << <<"c", "d">> >>,
                                 << <<"c", "d">>, <<"A", "B">> >>}) ]

JobPostings ==
    [ title : {<<"a", "b">>},
      skillsRequired : Optional(JobSkillLists),
      experienceLevel : Optional(ExpLevels),
      salaryMax : {Some(80), Some(120)},
      location : Optional({<<"a">>, <<"a", "b", "c">>, <<"c">>}),
      locationType : {Some("ONSITE"), Some("REMOTE")} ]

NoCall == AiFailure("NotCalled")

BatchIdle ==
    /\ jobs = <<>>
    /\ results = <<>>
    /\ i = 0
    /\ pending = {}
    /\ aiOutcomes = <<>>
    /\ batchPc = "idle"

DbIdle ==
    /\ applications = EmptyBag
    /\ jobMatchCache = EmptyBag
    /\ userPreferences = <<>>
    /\ applicationCount = <<>>
    /\ clock = 0
    /\ requests = <<>>
    /\ started = 0

\* ---- the deterministic fallback on its own ----
InitBasic ==
    /\ profile \in Profiles
    /\ job \in JobPostings
    /\ aiOutcome = NoCall
    /\ result = None
    /\ raised = FALSE
    /\ BatchIdle
    /\ DbIdle

CallBasic ==
    /\ result = None
    /\ result' = Some(calculateBasicMatchScore(profile, job))
    /\ UNCHANGED <<profile, job, aiOutcome, raised>>
    /\ UNCHANGED batchVars
    /\ UNCHANGED dbVars

NextBasic == CallBasic

SpecBasic == InitBasic /\ [][NextBasic]_vars

\* ---- calculateMatchScore under every outcome of the OpenAI call ----
AiReasons == {None, Some(<<Reason("Strong skills overlap")>>)}
AiDetails ==
    {None,
     Some([ skillsMatch |-> Some(90), experienceMatch |-> Some(70),
            salaryMatch |-> None, locationMatch |-> Some(0),
            overallFit |-> Some(80) ])}
AiScores == {None, Some(-50), Some(720), Some(855), Some(1500)}

AIOutcomes ==
    {AiFailure(k) : k \in {"NetworkError", "NoContent", "MalformedJSON", "JsonNull"}}
    \cup {AiJson(sc, r, d) : sc \in AiScores, r \in AiReasons, d \in AiDetails}

MatchProfiles ==
    {p \in Profiles :
        /\ p.experienceYears = Some(4)
        /\ p.salaryMin = Some(100)
        /\ p.location = Some(<<"A", "B">>)
        /\ p.preferredRoles = Some(<< <<"A">> >>)}

MatchJobPostings ==
    {j \in JobPostings :
        /\ j.salaryMax = Some(120)
        /\ j.location = Some(<<"c">>)
        /\ j.locationType = Some("REMOTE")}

InitMatch ==
    /\ profile \in MatchProfiles
    /\ job \in MatchJobPostings
    /\ aiOutcome = NoCall
    /\ result = None
    /\ raised = FALSE
    /\ BatchIdle
    /\ DbIdle

CallMatch ==
    /\ aiOutcome = NoCall
    /\ \E ai \in AIOutcomes :
        /\ aiOutcome' = ai
        /\ result' = calculateMatchScore(profile, job, ai).value
        /\ raised' = calculateMatchScore(profile, job, ai).threw
    /\ UNCHANGED <<profile, job>>
    /\ UNCHANGED batchVars
    /\ UNCHANGED dbVars

NextMatch == CallMatch

SpecMatch == InitMatch /\ [][NextMatch]_vars

\* the spec's notion of a failed AI call: the request fails, the response is
\* empty or not JSON, or the JSON lacks one of the requested fields
AICallFails(ai) ==
    \/ ai.kind # "Json"
    \/ ai.score = None
    \/ ai.reasons = None
    \/ ai.details = None

ScoreInRange(r) == IsSome(r.score) /\ Val(r.score) \in 0..100

\* C1: calculateMatchScore never raises, and whenever the AI call fails
\* (network error, empty response, malformed JSON, or JSON with a missing
\* field such as score) it returns exactly calculateBasicMatchScore(profile, job).
C1_FailedCallReturnsFallback ==
    (aiOutcome # NoCall) =>
        /\ ~raised
        /\ AICallFails(aiOutcome) =>
              result = Some(calculateBasicMatchScore(profile, job))

\* C8: the deterministic fallback's score is an integer with 0 <= score <= 100
\* for every profile and job.
C8_BasicScoreInRange ==
    IsSome(result) => ScoreInRange(Val(result))

\* C9: every MatchResult calculateMatchScore returns, parsed from the AI
\* response or computed by the fallback, has an integer score in [0,100].
C9_MatchScoreInRange ==
    (aiOutcome # NoCall /\ IsSome(result)) => ScoreInRange(Val(result))

(***************************************************************************)
(* batchCalculateMatchScores (matching.service.ts:224-249).  The map       *)
(* callbacks of one group all start in the same synchronous stretch; each  *)
(* then completes on its own when its OpenAI call settles.                 *)
(***************************************************************************)
batchSize == 5
MaxBatchJobs == 6

Min(a, b) == IF a <= b THEN a ELSE b

\* Map.prototype.set
MapSet(m, k, v) == [x \in DOMAIN m \cup {k} |-> IF x = k THEN v ELSE m[x]]

BatchOutcomes ==
    { AiFailure("NetworkError"),
      AiJson(None, None, None),
      AiJson(Some(720), Some(<<Reason("Strong skills overlap")>>), None) }

BatchProfile ==
    [ skills |-> Some(<< <<"A">>, <<"c", "d">> >>), experienceYears |-> Some(4),
      salaryMin |-> Some(100), location |-> Some(<<"A", "B">>),
      preferredRoles |-> Some(<< <<"A">> >>) ]

BatchPosting(k) ==
    [ title |-> <<"a", "b">>,
      skillsRequired |-> IF k % 2 = 0 THEN Some(<< <<"c">> >>)
                         ELSE Some(<< <<"a", "c", "d">>, <<"c">> >>),
      experienceLevel |-> IF k % 2 = 0 THEN Some("EXECUTIVE") ELSE Some("MID"),
      salaryMax |-> Some(80),
      location |-> Some(<<"c">>),
      locationType |-> Some("REMOTE") ]

InitBatch ==
    /\ profile = BatchProfile
    /\ job = BatchPosting(1)
    /\ aiOutcome = NoCall
    /\ result = None
    /\ raised = FALSE
    /\ \E n \in 0..MaxBatchJobs :
          jobs = [k \in 1..n |-> [id |-> k, posting |-> BatchPosting(k)]]
    /\ results = <<>>
    /\ i = 0
    /\ pending = {}
    /\ aiOutcomes = <<>>
    /\ batchPc = "loop"
    /\ DbIdle

\* for (...; i < jobs.length; ...): slice the group and start its callbacks
StartGroup ==
    /\ batchPc = "loop"
    /\ i < Len(jobs)
    /\ pending' = (i + 1)..Min(i + batchSize, Len(jobs))
    /\ batchPc' = "awaitAll"
    /\ UNCHANGED <<jobs, results, i, aiOutcomes>>
    /\ UNCHANGED scorerVars
    /\ UNCHANGED dbVars

\* one callback: const result = await calculateMatchScore(...); results.set(...)
CompleteJob(k) ==
    /\ batchPc = "awaitAll"
    /\ k \in pending
    /\ \E ai \in BatchOutcomes :
        LET r == calculateMatchScore(profile, jobs[k].posting, ai)
        IN /\ aiOutcomes' = MapSet(aiOutcomes, k, ai)
           /\ IF r.threw
              THEN /\ batchPc' = "raised"
                   /\ UNCHANGED results
              ELSE /\ results' = MapSet(results, jobs[k].id, Val(r.value))
                   /\ UNCHANGED batchPc
    /\ pending' = pending \ {k}
    /\ UNCHANGED <<jobs, i>>
    /\ UNCHANGED scorerVars
    /\ UNCHANGED dbVars

\* a loop without the setTimeout between groups
GroupDoneNoPause ==
    /\ batchPc = "awaitAll"
    /\ pending = {}
    /\ batchPc' = "loop"
    /\ i' = i + batchSize
    /\ UNCHANGED <<jobs, results, pending, aiOutcomes>>
    /\ UNCHANGED scorerVars
    /\ UNCHANGED dbVars

\* await Promise.all resolved: pause when another group follows
GroupDone ==
    /\ batchPc = "awaitAll"
    /\ pending = {}
    /\ IF i + batchSize < Len(jobs)
       THEN batchPc' = "delay" /\ UNCHANGED i
       ELSE batchPc' = "loop" /\ i' = i + batchSize
    /\ UNCHANGED <<jobs, results, pending, aiOutcomes>>
    /\ UNCHANGED scorerVars
    /\ UNCHANGED dbVars

\* the setTimeout(resolve, 1000) fires
DelayOver ==
    /\ batchPc = "delay"
    /\ batchPc' = "loop"
    /\ i' = i + batchSize
    /\ UNCHANGED <<jobs, results, pending, aiOutcomes>>
    /\ UNCHANGED scorerVars
    /\ UNCHANGED dbVars

\* return results
BatchReturn ==
    /\ batchPc = "loop"
    /\ i >= Len(jobs)
    /\ batchPc' = "returned"
    /\ UNCHANGED <<jobs, results, i, pending, aiOutcomes>>
    /\ UNCHANGED scorerVars
    /\ UNCHANGED dbVars

NextBatch ==
    \/ StartGroup
    \/ \E k \in 1..Len(jobs) : CompleteJob(k)
    \/ GroupDone
    \/ DelayOver
    \/ BatchReturn

SpecBatch == InitBatch /\ [][NextBatch]_vars

\* every OpenAI call settles (the client times out), the event loop runs a
\* continuation that is ready, and the timer fires
SpecBatchFair == InitBatch /\ [][NextBatch]_vars /\ WF_vars(NextBatch)

\* C10: the batch is never aborted and returns a map with a result for every
\* input job, where a job whose AI call failed holds its own deterministic
\* fallback result and every other job holds the result parsed for it.
C10_BatchIsolatesFailures ==
    /\ batchPc # "raised"
    /\ batchPc = "returned" =>
         \A k \in 1..Len(jobs) :
            /\ jobs[k].id \in DOMAIN results
            /\ results[jobs[k].id] =
                 IF AICallFails(aiOutcomes[k])
                 THEN calculateBasicMatchScore(profile, jobs[k].posting)
                 ELSE parsedResult(aiOutcomes[k])

(***************************************************************************)
(* The database (schema part_001) and the request handlers.  Every await   *)
(* of a Prisma call is one atomic step: the query runs and the handler     *)
(* continues up to its next query.  Requests run in slots and interleave   *)
(* between steps.                                                          *)
(***************************************************************************)
MaxRequests == 2
MaxDay == 1
Slots == {1, 2}

ActingUser == "u1"
OtherUser == "u2"
JobIds == {"j1", "j2"}
MissingJobId == "j0"
NoJob == "none"

\* ---- tables as bags of rows ----
RECURSIVE SumCopies(_, _)
SumCopies(S, t) ==
    IF S = {} THEN 0
    ELSE LET x == CHOOSE y \in S : TRUE
         IN CopiesIn(x, t) + SumCopies(S \ {x}, t)

\* rows of table t for one (user_id, job_id)
RowsFor(t, userId, jobId) ==
    {r \in BagToSet(t) : r.userId = userId /\ r.jobId = jobId}

\* a schema without the unique constraint
NoUniqueConstraint(t, userId, jobId) == FALSE

\* UNIQUE(user_id, job_id), part_001:199 and part_001:363: the insert is refused
UniqueViolation(t, userId, jobId) == RowsFor(t, userId, jobId) # {}

Insert(t, row) == t (+) SetToBag({row})

\* prisma.jobMatchCache.update({ where: userId_jobId, data })
RECURSIVE UpdateRows(_, _, _, _)
UpdateRows(t, S, Upd(_), acc) ==
    IF S = {} THEN acc
    ELSE LET x == CHOOSE y \in S : TRUE
         IN UpdateRows(t, S \ {x}, Upd,
                       acc (+) [r \in {Upd(x)} |-> CopiesIn(x, t)])

UpdateWhere(t, userId, jobId, Upd(_)) ==
    UpdateRows(t, BagToSet(t),
               LAMBDA r : IF r.userId = userId /\ r.jobId = jobId THEN Upd(r) ELSE r,
               EmptyBag)

\* a row as create writes it: status 'PENDING' (part_010:152 and 409)
ApplicationRow(userId, jobId, matchScore, isAutoApplied, createdAt) ==
    [ userId |-> userId, jobId |-> jobId, status |-> "PENDING",
      matchScore |-> matchScore, isAutoApplied |-> isAutoApplied,
      createdAt |-> createdAt ]

CacheRow(userId, jobId, matchScore, isFavorite, isHidden) ==
    [ userId |-> userId, jobId |-> jobId, matchScore |-> matchScore,
      isFavorite |-> isFavorite, isHidden |-> isHidden ]

PreferencesRow(enabled, threshold, maxPerDay) ==
    [ autoApplyEnabled |-> enabled, autoApplyThreshold |-> threshold,
      autoApplyMaxPerDay |-> maxPerDay ]

\* ---- responses ----
NoResponse == [status |-> 0, code |-> "", message |-> ""]
Response(status, code, message) == [status |-> status, code |-> code, message |-> message]

\* an errorHandler without the P2002 case: the error falls through to 500
P2002Unhandled == Response(500, "INTERNAL_ERROR", "Internal server error")

\* errorHandler on Prisma P2002 (part_012:523-529)
P2002Response == Response(409, "DUPLICATE_ERROR", "Resource already exists")

(***************************************************************************)
(* A request slot: the handler, its position and its local variables.      *)
(* eligible and increments are history variables: the cache rows that were *)
(* above threshold, not hidden and unapplied when the cache was queried,   *)
(* and the number of job counters the request has incremented.             *)
(***************************************************************************)
IdleRequest ==
    [ op |-> "idle", pc |-> "idle", jobId |-> NoJob,
      preferences |-> None, today |-> None, dailyCount |-> None,
      matchedJobs |-> <<>>, jobsToApply |-> <<>>, created |-> <<>>,
      existingCache |-> None, matchScore |-> None,
      eligible |-> {}, increments |-> 0,
      response |-> NoResponse ]

NewRequest(op, pc, jobId) == [IdleRequest EXCEPT !.op = op, !.pc = pc, !.jobId = jobId]

Free(s) == requests[s].pc \in {"idle", "done"}

SetRequest(s, r) == requests' = [requests EXCEPT ![s] = r]

\* the handler returns: its working variables go out of scope
Finish(r, resp) ==
    [r EXCEPT !.pc = "done", !.response = resp,
              !.today = None, !.matchedJobs = <<>>, !.existingCache = None,
              !.matchScore = None]

JobExists(jobId) == jobId \in DOMAIN applicationCount

\* an update that adds 2
IncrementCountByTwo(jobId) ==
    applicationCount' = [applicationCount EXCEPT ![jobId] = @ + 2]

\* prisma.job.update({ data: { applicationCount: { increment: 1 } } })
IncrementCount(jobId) ==
    applicationCount' = [applicationCount EXCEPT ![jobId] = @ + 1]

\* ---- initial database ----
CacheScores == {60, 90}

\* autoApplyThreshold is 50 by default and any number from 0 to 100
\* (part_013:111); autoApplyMaxPerDay is at least 1
InitPreferences ==
    {None} \cup {Some(PreferencesRow(e, 50, m)) : e \in BOOLEAN, m \in {1, 2}}
           \cup {Some(PreferencesRow(TRUE, 0, 1))}

\* rows of another user: the handlers' userId filters must leave them alone
OtherUserCache == SetToBag({CacheRow(OtherUser, "j1", 90, FALSE, FALSE)})
OtherUserApplications == SetToBag({ApplicationRow(OtherUser, "j2", Some(90), TRUE, 0)})

InitCaches ==
    { OtherUserCache (+) SetToBag({CacheRow(ActingUser, j, sc[j], FALSE, FALSE) : j \in S}) :
        S \in SUBSET JobIds, sc \in {f \in [JobIds -> CacheScores] : f["j2"] = 60} }

UserProfileRow == BatchProfile
PostingOf(jobId) == BatchPosting(IF jobId = "j1" THEN 1 ELSE 2)
DbOutcomes == {AiJson(Some(720), None, None)}

Init ==
    /\ profile = UserProfileRow
    /\ job = BatchPosting(1)
    /\ aiOutcome = NoCall
    /\ result = None
    /\ raised = FALSE
    /\ BatchIdle
    /\ applications = OtherUserApplications
    /\ jobMatchCache \in InitCaches
    /\ userPreferences \in [{ActingUser} -> InitPreferences]
    /\ applicationCount = [j \in JobIds |-> IF j = "j2" THEN 1 ELSE 0]
    /\ clock = 0
    /\ requests = [s \in Slots |-> IdleRequest]
    /\ started = 0

\* a request arrives and is handed to its handler; slots are interchangeable,
\* so the request takes the first free one
Receive(s, op, pc, jobId) ==
    /\ Free(s)
    /\ \A t \in Slots : t < s => ~Free(t)
    /\ started < MaxRequests
    /\ started' = started + 1
    /\ SetRequest(s, NewRequest(op, pc, jobId))
    /\ UNCHANGED <<applications, jobMatchCache, userPreferences, applicationCount, clock>>
    /\ UNCHANGED scorerVars
    /\ UNCHANGED batchVars

ReceiveCreateApplication(s) ==
    \E j \in JobIds \cup {MissingJobId} : Receive(s, "createApplication", "ca_check", j)

ReceiveAutoApply(s) == Receive(s, "autoApply", "aa_prefs", NoJob)

ReceiveToggleFavorite(s) ==
    \E j \in JobIds \cup {MissingJobId} : Receive(s, "toggleFavorite", "tf_read", j)

ReceiveHideJob(s) ==
    \E j \in JobIds \cup {MissingJobId} : Receive(s, "hideJob", "hj_read", j)

ReceiveToggleAutoApply(s) == Receive(s, "toggleAutoApply", "ta_read", NoJob)

\* DELETE /applications/:id, where :id is the id of the acting user's
\* Application for job j if there is one, and an id findFirst does not find
\* otherwise
ReceiveDeleteApplication(s) ==
    \E j \in JobIds : Receive(s, "deleteApplication", "da_find", j)

(***************************************************************************)
(* createApplication (part_010:107-201)                                    *)
(***************************************************************************)
\* job.findUnique, application.findUnique, userProfile.findUnique and the
\* scoring call; only application.findUnique reads a table that changes
CreateApplicationCheck(s) ==
    LET r == requests[s]
    IN /\ r.pc = "ca_check"
       /\ IF ~JobExists(r.jobId)
          THEN SetRequest(s, Finish(r, Response(404, "NOT_FOUND", "Job not found")))
          ELSE IF RowsFor(applications, ActingUser, r.jobId) # {}
          THEN SetRequest(s, Finish(r, Response(409, "DUPLICATE_ERROR",
                                               "You have already applied to this job")))
          ELSE \E ai \in DbOutcomes :
                 SetRequest(s, [r EXCEPT
                     !.pc = "ca_create",
                     !.matchScore =
                        Val(calculateMatchScore(UserProfileRow, PostingOf(r.jobId), ai).value).score])
       /\ UNCHANGED <<applications, jobMatchCache, userPreferences, applicationCount,
                      clock, started>>
       /\ UNCHANGED scorerVars
       /\ UNCHANGED batchVars

\* prisma.application.create (part_010:148-170)
CreateApplicationInsert(s) ==
    LET r == requests[s]
    IN /\ r.pc = "ca_create"
       /\ IF UniqueViolation(applications, ActingUser, r.jobId)
          THEN /\ SetRequest(s, Finish(r, P2002Response))
               /\ UNCHANGED applications
          ELSE /\ applications' =
                     Insert(applications,
                            ApplicationRow(ActingUser, r.jobId, r.matchScore, FALSE, clock))
               /\ SetRequest(s, [r EXCEPT !.pc = "ca_count",
                                          !.created = <<r.jobId>>])
       /\ UNCHANGED <<jobMatchCache, userPreferences, applicationCount, clock, started>>
       /\ UNCHANGED scorerVars
       /\ UNCHANGED batchVars

\* prisma.job.update increment, the notification, and the 201 response
CreateApplicationCount(s) ==
    LET r == requests[s]
    IN /\ r.pc = "ca_count"
       /\ IncrementCount(r.jobId)
       /\ SetRequest(s, Finish([r EXCEPT !.increments = @ + 1],
                               Response(201, "", "Application submitted successfully")))
       /\ UNCHANGED <<applications, jobMatchCache, userPreferences, clock, started>>
       /\ UNCHANGED scorerVars
       /\ UNCHANGED batchVars

(***************************************************************************)
(* autoApply (part_010:345-444)                                            *)
(***************************************************************************)
\* a guard that refuses only missing preferences
AutoApplyDisabledOnlyMissing(prefs) == prefs = None

\* !preferences || !preferences.autoApplyEnabled
AutoApplyDisabled(prefs) == prefs = None \/ ~Val(prefs).autoApplyEnabled

\* const today = new Date(); today.setHours(0, 0, 0, 0): the start of the
\* current day
AutoApplyToday == clock

\* prisma.userPreferences.findUnique and the AUTO_APPLY_DISABLED guard; the
\* handler then reads the clock and issues the count without yielding
AutoApplyPreferences(s) ==
    LET r == requests[s]
        prefs == userPreferences[ActingUser]
    IN /\ r.pc = "aa_prefs"
       /\ IF AutoApplyDisabled(prefs)
          THEN SetRequest(s, Finish([r EXCEPT !.preferences = prefs],
                                    Response(400, "AUTO_APPLY_DISABLED",
                                             "Auto-apply is not enabled")))
          ELSE SetRequest(s, [r EXCEPT !.preferences = prefs,
                                       !.today = Some(AutoApplyToday),
                                       !.pc = "aa_count"])
       /\ UNCHANGED <<applications, jobMatchCache, userPreferences, applicationCount,
                      clock, started>>
       /\ UNCHANGED scorerVars
       /\ UNCHANGED batchVars

\* prisma.application.count({ userId, isAutoApplied: true, createdAt >= today })
CountAutoAppliedSince(userId, today) ==
    SumCopies({a \in BagToSet(applications) :
                  a.userId = userId /\ a.isAutoApplied /\ a.createdAt >= today},
              applications)

\* a limit check with > in place of >=
RateLimitedStrict(dailyCount, prefs) == dailyCount > prefs.autoApplyMaxPerDay

\* dailyCount >= preferences.autoApplyMaxPerDay
RateLimited(dailyCount, prefs) == dailyCount >= prefs.autoApplyMaxPerDay

AutoApplyCount(s) ==
    LET r == requests[s]
        dailyCount == CountAutoAppliedSince(ActingUser, Val(r.today))
    IN /\ r.pc = "aa_count"
       /\ IF RateLimited(dailyCount, Val(r.preferences))
          THEN SetRequest(s, Finish([r EXCEPT !.dailyCount = Some(dailyCount)],
                                    Response(429, "RATE_LIMIT",
                                             "Daily auto-apply limit reached")))
          ELSE SetRequest(s, [r EXCEPT !.dailyCount = Some(dailyCount), !.pc = "aa_match"])
       /\ UNCHANGED <<applications, jobMatchCache, userPreferences, applicationCount,
                      clock, started>>
       /\ UNCHANGED scorerVars
       /\ UNCHANGED batchVars

\* a where clause without isHidden: false
MatchCandidatesWithHidden(userId, threshold) ==
    {m \in BagToSet(jobMatchCache) : m.userId = userId /\ m.matchScore >= threshold}

\* where: { userId, matchScore: { gte: autoApplyThreshold }, isHidden: false }
MatchCandidates(userId, threshold) ==
    {m \in BagToSet(jobMatchCache) :
        m.userId = userId /\ m.matchScore >= threshold /\ ~m.isHidden}

Range(q) == {q[k] : k \in DOMAIN q}

\* orderBy: { matchScore: 'desc' }, take: n.  PostgreSQL orders equal scores
\* arbitrarily, so every descending order of the rows is a possible answer.
OrderedTake(S, n) ==
    LET m == Min(n, Cardinality(S))
    IN {q \in [1..m -> S] :
          /\ \A a, b \in 1..m : a < b => q[a] # q[b] /\ q[a].matchScore >= q[b].matchScore
          /\ \A x \in S \ Range(q) : \A k \in 1..m : q[k].matchScore >= x.matchScore}

\* the query without take
FindMatchedJobsNoTake(userId, prefs, dailyCount) ==
    OrderedTake(MatchCandidates(userId, prefs.autoApplyThreshold),
                Cardinality(MatchCandidates(userId, prefs.autoApplyThreshold)))

\* prisma.jobMatchCache.findMany (part_010:374-385)
FindMatchedJobs(userId, prefs, dailyCount) ==
    OrderedTake(MatchCandidates(userId, prefs.autoApplyThreshold),
                prefs.autoApplyMaxPerDay - dailyCount)

HasApplication(userId, jobId) == RowsFor(applications, userId, jobId) # {}

AutoApplyMatch(s) ==
    LET r == requests[s]
        prefs == Val(r.preferences)
    IN /\ r.pc = "aa_match"
       /\ \E q \in FindMatchedJobs(ActingUser, prefs, Val(r.dailyCount)) :
            SetRequest(s, [r EXCEPT
                !.matchedJobs = q,
                !.eligible = {m \in MatchCandidates(ActingUser, prefs.autoApplyThreshold) :
                                 ~HasApplication(ActingUser, m.jobId)},
                !.pc = "aa_existing"])
       /\ UNCHANGED <<applications, jobMatchCache, userPreferences, applicationCount,
                      clock, started>>
       /\ UNCHANGED scorerVars
       /\ UNCHANGED batchVars

\* prisma.application.findMany({ userId, jobId in jobIds }) and the filter
JobsToApply(userId, matchedJobs) ==
    LET appliedJobIds == {m.jobId : m \in {x \in Range(matchedJobs) :
                                             HasApplication(userId, x.jobId)}}
    IN SelectSeq(matchedJobs, LAMBDA m : m.jobId \notin appliedJobIds)

AutoApplyDone(r) ==
    Finish(r, Response(200, "", "Auto-applied to n jobs"))

AutoApplyExisting(s) ==
    LET r == requests[s]
        todo == JobsToApply(ActingUser, r.matchedJobs)
    IN /\ r.pc = "aa_existing"
       /\ IF todo = <<>>
          THEN SetRequest(s, AutoApplyDone([r EXCEPT !.jobsToApply = todo]))
          ELSE SetRequest(s, [r EXCEPT !.jobsToApply = todo, !.pc = "aa_create"])
       /\ UNCHANGED <<applications, jobMatchCache, userPreferences, applicationCount,
                      clock, started>>
       /\ UNCHANGED scorerVars
       /\ UNCHANGED batchVars

\* a loop that catches the duplicate error, drops the candidate and goes on
AutoApplyDuplicateSkipped(r) ==
    LET rest == [k \in 1..(Len(r.jobsToApply) - 1) |->
                    IF k <= Len(r.created) THEN r.jobsToApply[k]
                    ELSE r.jobsToApply[k + 1]]
        r2 == [r EXCEPT !.jobsToApply = rest]
    IN IF Len(r.created) = Len(rest) THEN AutoApplyDone(r2) ELSE r2

\* the create inside the loop rejects with P2002: no try/catch surrounds it
\* (part_010:404-429), so the handler is left and errorHandler answers
AutoApplyDuplicate(r) == Finish(r, P2002Response)

\* for (const match of jobsToApply) { prisma.application.create(...) }
AutoApplyCreate(s) ==
    LET r == requests[s]
        match == r.jobsToApply[Len(r.created) + 1]
    IN /\ r.pc = "aa_create"
       /\ IF UniqueViolation(applications, ActingUser, match.jobId)
          THEN /\ SetRequest(s, AutoApplyDuplicate(r))
               /\ UNCHANGED applications
          ELSE /\ applications' =
                     Insert(applications,
                            ApplicationRow(ActingUser, match.jobId, Some(match.matchScore),
                                           TRUE, clock))
               /\ SetRequest(s, [r EXCEPT !.created = Append(@, match.jobId),
                                          !.pc = "aa_incr"])
       /\ UNCHANGED <<jobMatchCache, userPreferences, applicationCount, clock, started>>
       /\ UNCHANGED scorerVars
       /\ UNCHANGED batchVars

\* applications.push; prisma.job.update increment; next match or the response
AutoApplyIncrement(s) ==
    LET r == requests[s]
        match == r.jobsToApply[Len(r.created)]
        r2 == [r EXCEPT !.increments = @ + 1]
    IN /\ r.pc = "aa_incr"
       /\ IncrementCount(match.jobId)
       /\ IF Len(r.created) = Len(r.jobsToApply)
          THEN SetRequest(s, AutoApplyDone(r2))
          ELSE SetRequest(s, [r2 EXCEPT !.pc = "aa_create"])
       /\ UNCHANGED <<applications, jobMatchCache, userPreferences, clock, started>>
       /\ UNCHANGED scorerVars
       /\ UNCHANGED batchVars

(***************************************************************************)
(* toggleFavorite (part_012:305-365) and hideJob (part_012:371-424)        *)
(***************************************************************************)
\* job.findUnique and jobMatchCache.findUnique
CacheRead(s, pcRead, pcWrite) ==
    LET r == requests[s]
        rows == RowsFor(jobMatchCache, ActingUser, r.jobId)
    IN /\ r.pc = pcRead
       /\ IF ~JobExists(r.jobId)
          THEN SetRequest(s, Finish(r, Response(404, "NOT_FOUND", "Job not found")))
          ELSE IF rows = {}
          THEN SetRequest(s, [r EXCEPT !.existingCache = None, !.pc = pcWrite])
          ELSE \E row \in rows :
                 SetRequest(s, [r EXCEPT !.existingCache = Some(row), !.pc = pcWrite])
       /\ UNCHANGED <<applications, jobMatchCache, userPreferences, applicationCount,
                      clock, started>>
       /\ UNCHANGED scorerVars
       /\ UNCHANGED batchVars

ToggleFavoriteRead(s) == CacheRead(s, "tf_read", "tf_write")

\* prisma.jobMatchCache.findUnique({ where: { userId_jobId } })
FindCache(t, userId, jobId) ==
    IF RowsFor(t, userId, jobId) = {} THEN None
    ELSE Some(CHOOSE row \in RowsFor(t, userId, jobId) : TRUE)

\* a write that sets isFavorite instead of flipping it
ToggleFavoriteDataSetTrue(t, userId, jobId, existingCache) ==
    IF IsSome(existingCache)
    THEN UpdateWhere(t, userId, jobId, LAMBDA row : [row EXCEPT !.isFavorite = TRUE])
    ELSE Insert(t, CacheRow(userId, jobId, 0, TRUE, FALSE))

\* the table after toggleFavorite's write: jobMatchCache.update with
\* { isFavorite: !existingCache.isFavorite }, or jobMatchCache.create with
\* { matchScore: 0, isFavorite: true }
ToggleFavoriteData(t, userId, jobId, existingCache) ==
    IF IsSome(existingCache)
    THEN UpdateWhere(t, userId, jobId,
                     LAMBDA row : [row EXCEPT !.isFavorite = ~Val(existingCache).isFavorite])
    ELSE Insert(t, CacheRow(userId, jobId, 0, TRUE, FALSE))

\* a toggleFavorite call with no other request between its read and its write
toggleFavorite(t, userId, jobId) ==
    ToggleFavoriteData(t, userId, jobId, FindCache(t, userId, jobId))

\* update isFavorite to !existingCache.isFavorite, or create the placeholder
ToggleFavoriteWrite(s) ==
    LET r == requests[s]
    IN /\ r.pc = "tf_write"
       /\ IF IsSome(r.existingCache)
          THEN /\ jobMatchCache' =
                     ToggleFavoriteData(jobMatchCache, ActingUser, r.jobId, r.existingCache)
               /\ SetRequest(s, Finish(r,
                     Response(200, "",
                              IF ~Val(r.existingCache).isFavorite
                              THEN "Job added to favorites"
                              ELSE "Job removed from favorites")))
          ELSE IF UniqueViolation(jobMatchCache, ActingUser, r.jobId)
          THEN /\ SetRequest(s, Finish(r, P2002Response))
               /\ UNCHANGED jobMatchCache
          ELSE /\ jobMatchCache' =
                     ToggleFavoriteData(jobMatchCache, ActingUser, r.jobId, r.existingCache)
               /\ SetRequest(s, Finish(r, Response(200, "", "Job added to favorites")))
       /\ UNCHANGED <<applications, userPreferences, applicationCount, clock, started>>
       /\ UNCHANGED scorerVars
       /\ UNCHANGED batchVars

HideJobRead(s) == CacheRead(s, "hj_read", "hj_write")

\* a write that flips isHidden the way toggleFavorite flips isFavorite
HideJobDataToggle(t, userId, jobId, existingCache) ==
    IF IsSome(existingCache)
    THEN UpdateWhere(t, userId, jobId,
                     LAMBDA row : [row EXCEPT !.isHidden = ~Val(existingCache).isHidden])
    ELSE Insert(t, CacheRow(userId, jobId, 0, FALSE, TRUE))

\* the table after hideJob's write: jobMatchCache.update with { isHidden: true },
\* or jobMatchCache.create with { matchScore: 0, isHidden: true }
HideJobData(t, userId, jobId, existingCache) ==
    IF IsSome(existingCache)
    THEN UpdateWhere(t, userId, jobId, LAMBDA row : [row EXCEPT !.isHidden = TRUE])
    ELSE Insert(t, CacheRow(userId, jobId, 0, FALSE, TRUE))

\* a hideJob call with no other request between its read and its write
hideJob(t, userId, jobId) ==
    HideJobData(t, userId, jobId, FindCache(t, userId, jobId))

\* update isHidden to true, or create the hidden placeholder
HideJobWrite(s) ==
    LET r == requests[s]
    IN /\ r.pc = "hj_write"
       /\ IF IsSome(r.existingCache)
          THEN /\ jobMatchCache' =
                     HideJobData(jobMatchCache, ActingUser, r.jobId, r.existingCache)
               /\ SetRequest(s, Finish(r, Response(200, "", "Job hidden successfully")))
          ELSE IF UniqueViolation(jobMatchCache, ActingUser, r.jobId)
          THEN /\ SetRequest(s, Finish(r, P2002Response))
               /\ UNCHANGED jobMatchCache
          ELSE /\ jobMatchCache' =
                     HideJobData(jobMatchCache, ActingUser, r.jobId, r.existingCache)
               /\ SetRequest(s, Finish(r, Response(200, "", "Job hidden successfully")))
       /\ UNCHANGED <<applications, userPreferences, applicationCount, clock, started>>
       /\ UNCHANGED scorerVars
       /\ UNCHANGED batchVars

(***************************************************************************)
(* deleteApplication (part_010:248-278)                                    *)
(***************************************************************************)
\* prisma.application.findFirst({ where: { id, userId } })
DeleteApplicationFind(s) ==
    LET r == requests[s]
    IN /\ r.pc = "da_find"
       /\ IF RowsFor(applications, ActingUser, r.jobId) = {}
          THEN SetRequest(s, Finish(r, Response(404, "NOT_FOUND", "Application not found")))
          ELSE SetRequest(s, [r EXCEPT !.pc = "da_update"])
       /\ UNCHANGED <<applications, jobMatchCache, userPreferences, applicationCount,
                      clock, started>>
       /\ UNCHANGED scorerVars
       /\ UNCHANGED batchVars

\* prisma.application.update({ where: { id }, data: { status: 'WITHDRAWN' } })
DeleteApplicationUpdate(s) ==
    LET r == requests[s]
    IN /\ r.pc = "da_update"
       /\ applications' =
             UpdateWhere(applications, ActingUser, r.jobId,
                         LAMBDA a : [a EXCEPT !.status = "WITHDRAWN"])
       /\ SetRequest(s, Finish(r, Response(200, "", "Application withdrawn successfully")))
       /\ UNCHANGED <<jobMatchCache, userPreferences, applicationCount, clock, started>>
       /\ UNCHANGED scorerVars
       /\ UNCHANGED batchVars

(***************************************************************************)
(* toggleAutoApply (admin.controller.ts:517-538)                           *)
(***************************************************************************)
ToggleAutoApplyRead(s) ==
    LET r == requests[s]
        prefs == userPreferences[ActingUser]
    IN /\ r.pc = "ta_read"
       /\ IF prefs = None
          THEN SetRequest(s, Finish(r, Response(404, "NOT_FOUND", "Preferences not found")))
          ELSE SetRequest(s, [r EXCEPT !.preferences = prefs, !.pc = "ta_write"])
       /\ UNCHANGED <<applications, jobMatchCache, userPreferences, applicationCount,
                      clock, started>>
       /\ UNCHANGED scorerVars
       /\ UNCHANGED batchVars

ToggleAutoApplyWrite(s) ==
    LET r == requests[s]
        enabled == ~Val(r.preferences).autoApplyEnabled
    IN /\ r.pc = "ta_write"
       /\ userPreferences' =
             [userPreferences EXCEPT ![ActingUser] =
                 Some([Val(@) EXCEPT !.autoApplyEnabled = enabled])]
       /\ SetRequest(s, Finish(r, Response(200, "",
                                  IF enabled THEN "Auto-apply enabled"
                                  ELSE "Auto-apply disabled")))
       /\ UNCHANGED <<applications, jobMatchCache, applicationCount, clock, started>>
       /\ UNCHANGED scorerVars
       /\ UNCHANGED batchVars

(***************************************************************************)
(* The environment: a scoring pass stores a score in the cache, and        *)
(* midnight passes.                                                        *)
(***************************************************************************)
\* upsertScore(userId, jobId, result): create-or-update keyed by (userId, jobId)
UpsertScore ==
    /\ started < MaxRequests
    /\ started' = started + 1
    /\ \E j \in JobIds, sc \in CacheScores :
         jobMatchCache' =
            IF RowsFor(jobMatchCache, ActingUser, j) = {}
            THEN Insert(jobMatchCache, CacheRow(ActingUser, j, sc, FALSE, FALSE))
            ELSE UpdateWhere(jobMatchCache, ActingUser, j,
                             LAMBDA row : [row EXCEPT !.matchScore = sc])
    /\ UNCHANGED <<applications, userPreferences, applicationCount, clock, requests>>
    /\ UNCHANGED scorerVars
    /\ UNCHANGED batchVars

\* Midnight passes.  The day is read only by new Date() in autoApply and by
\* the created_at default of the two creates, and a midnight commutes with
\* every other step, so it is taken only when a handler is about to read the
\* day: every behaviour has one of these with the same tables and requests.
NextDay ==
    /\ clock < MaxDay
    /\ \E s \in Slots : requests[s].pc \in {"aa_prefs", "ca_create", "aa_create"}
    /\ clock' = clock + 1
    /\ UNCHANGED <<applications, jobMatchCache, userPreferences, applicationCount,
                   requests, started>>
    /\ UNCHANGED scorerVars
    /\ UNCHANGED batchVars

Next ==
    \/ \E s \in Slots : ReceiveCreateApplication(s)
    \/ \E s \in Slots : ReceiveAutoApply(s)
    \/ \E s \in Slots : ReceiveToggleFavorite(s)
    \/ \E s \in Slots : ReceiveHideJob(s)
    \/ \E s \in Slots : ReceiveToggleAutoApply(s)
    \/ \E s \in Slots : ReceiveDeleteApplication(s)
    \/ \E s \in Slots : CreateApplicationCheck(s)
    \/ \E s \in Slots : CreateApplicationInsert(s)
    \/ \E s \in Slots : CreateApplicationCount(s)
    \/ \E s \in Slots : AutoApplyPreferences(s)
    \/ \E s \in Slots : AutoApplyCount(s)
    \/ \E s \in Slots : AutoApplyMatch(s)
    \/ \E s \in Slots : AutoApplyExisting(s)
    \/ \E s \in Slots : AutoApplyCreate(s)
    \/ \E s \in Slots : AutoApplyIncrement(s)
    \/ \E s \in Slots : ToggleFavoriteRead(s)
    \/ \E s \in Slots : ToggleFavoriteWrite(s)
    \/ \E s \in Slots : HideJobRead(s)
    \/ \E s \in Slots : HideJobWrite(s)
    \/ \E s \in Slots : DeleteApplicationFind(s)
    \/ \E s \in Slots : DeleteApplicationUpdate(s)
    \/ \E s \in Slots : ToggleAutoApplyRead(s)
    \/ \E s \in Slots : ToggleAutoApplyWrite(s)
    \/ UpsertScore
    \/ NextDay

Spec == Init /\ [][Next]_vars

(***************************************************************************)
(* Properties of the database and the handlers.                            *)
(***************************************************************************)
RowCount(t, userId, jobId) == SumCopies(RowsFor(t, userId, jobId), t)

AutoApplyRequests == {s \in Slots : requests[s].op = "autoApply"}

\* C2: in every reachable state there is at most one Application and at most
\* one MatchCacheEntry per (user, job) pair, whatever the interleaving of
\* createApplication, autoApply, toggleFavorite and hideJob.
C2_UniquePerPair ==
    \A u \in {ActingUser, OtherUser}, j \in JobIds :
        /\ RowCount(applications, u, j) <= 1
        /\ RowCount(jobMatchCache, u, j) <= 1

\* an autoApply tried to create an Application for a pair that had one
C2_Witness ==
    \E s \in AutoApplyRequests :
        /\ requests[s].pc = "done"
        /\ requests[s].response = P2002Response
        /\ RowCount(applications, ActingUser,
                    requests[s].jobsToApply[Len(requests[s].created) + 1].jobId) = 1

\* C3: an autoApply call that passes the daily-limit check creates at most
\* autoApplyMaxPerDay - todayCount Applications, todayCount being the count it
\* read at its start; a call refused by that check creates none.
C3_CreatesAtMostRemaining ==
    \A s \in AutoApplyRequests :
        LET r == requests[s]
        IN IsSome(r.dailyCount) =>
             IF Val(r.dailyCount) >= Val(r.preferences).autoApplyMaxPerDay
             THEN r.created = <<>>
             ELSE Len(r.created) <=
                     Val(r.preferences).autoApplyMaxPerDay - Val(r.dailyCount)

\* a call created exactly its remaining quota although more entries qualified
C3_Witness ==
    \E s \in AutoApplyRequests :
        LET r == requests[s]
        IN /\ r.pc = "done"
           /\ r.response.status = 200
           /\ Len(r.created) = Val(r.preferences).autoApplyMaxPerDay - Val(r.dailyCount)
           /\ Cardinality(r.eligible) > Len(r.created)

AutoAppliedOn(userId, day) ==
    SumCopies({a \in BagToSet(applications) :
                  a.userId = userId /\ a.isAutoApplied /\ a.createdAt = day},
              applications)

\* C4: with autoApplyMaxPerDay fixed, the number of auto-applied Applications
\* of a user created within one day never exceeds autoApplyMaxPerDay, under
\* any interleaving of concurrent requests.
C4_DailyQuotaRespected ==
    \A day \in 0..MaxDay :
        IsSome(userPreferences[ActingUser]) =>
            AutoAppliedOn(ActingUser, day)
                <= Val(userPreferences[ActingUser]).autoApplyMaxPerDay

\* C5: when the preferences are missing or autoApplyEnabled is false, autoApply
\* fails with AUTO_APPLY_DISABLED whatever the match cache contains, creating no
\* Application and incrementing no job counter.
C5_DisabledIsRefused ==
    \A s \in AutoApplyRequests :
        LET r == requests[s]
        IN (r.pc # "aa_prefs"
              /\ (r.preferences = None \/ ~Val(r.preferences).autoApplyEnabled)) =>
             /\ r.pc = "done"
             /\ r.response.status = 400
             /\ r.response.code = "AUTO_APPLY_DISABLED"
             /\ r.created = <<>>
             /\ r.increments = 0

\* auto-apply switched off, a cache entry above threshold, and the call refused
C5_Witness ==
    \E s \in AutoApplyRequests :
        LET r == requests[s]
        IN /\ r.pc = "done"
           /\ IsSome(r.preferences)
           /\ ~Val(r.preferences).autoApplyEnabled
           /\ r.response.code = "AUTO_APPLY_DISABLED"
           /\ MatchCandidates(ActingUser, Val(r.preferences).autoApplyThreshold) # {}

\* C6: when auto-apply is enabled and today's auto-applied count is at least
\* autoApplyMaxPerDay, autoApply fails with the rate-limit error (429,
\* RATE_LIMIT) and creates no Application, whatever the match cache contains.
C6_RateLimitIsRefused ==
    \A s \in AutoApplyRequests :
        LET r == requests[s]
        IN (IsSome(r.dailyCount)
              /\ Val(r.dailyCount) >= Val(r.preferences).autoApplyMaxPerDay) =>
             /\ r.pc = "done"
             /\ r.response.status = 429
             /\ r.response.code = "RATE_LIMIT"
             /\ r.created = <<>>
             /\ r.increments = 0

\* the quota is used up, an unapplied entry above threshold waits, and the
\* call is refused
C6_Witness ==
    \E s \in AutoApplyRequests :
        LET r == requests[s]
        IN /\ r.pc = "done"
           /\ r.response.code = "RATE_LIMIT"
           /\ Val(r.dailyCount) >= 1
           /\ \E m \in MatchCandidates(ActingUser, Val(r.preferences).autoApplyThreshold) :
                 ~HasApplication(ActingUser, m.jobId)

\* C7: a successful autoApply creates Applications for exactly the
\* min(remaining, |E|) highest-scoring entries of E, the user's cache entries
\* at or above threshold, not hidden and without an Application.
C7_SelectsTopEligible ==
    \A s \in AutoApplyRequests :
        LET r == requests[s]
            remaining == Val(r.preferences).autoApplyMaxPerDay - Val(r.dailyCount)
            chosen == {m \in r.eligible : m.jobId \in Range(r.created)}
        IN (r.pc = "done" /\ r.response.status = 200) =>
             /\ Len(r.created) = Min(remaining, Cardinality(r.eligible))
             /\ Cardinality(chosen) = Len(r.created)
             /\ \A c \in chosen, e \in r.eligible \ chosen : c.matchScore >= e.matchScore

CreateApplicationRequests == {s \in Slots : requests[s].op = "createApplication"}

\* C11: a createApplication step taken while the (user, job) pair already has
\* an Application, at the existence check or at the insert after a concurrent
\* commit, ends the request with 409 DUPLICATE_ERROR, inserts no Application
\* and increments no job counter.
C11_DuplicateIsConflict ==
    [][\A s \in CreateApplicationRequests :
          LET r == requests[s]
          IN (/\ r.pc \in {"ca_check", "ca_create"}
              /\ JobExists(r.jobId)
              /\ RowsFor(applications, ActingUser, r.jobId) # {}
              /\ requests'[s] # r) =>
                /\ requests'[s].pc = "done"
                /\ requests'[s].response.status = 409
                /\ requests'[s].response.code = "DUPLICATE_ERROR"
                /\ requests'[s].increments = 0
                /\ applications' = applications
                /\ applicationCount' = applicationCount]_vars

\* a createApplication passed its existence check, the pair was committed by
\* another request, and its insert was answered with the conflict
C11_Witness ==
    \E s \in CreateApplicationRequests :
        LET r == requests[s]
        IN /\ r.pc = "done"
           /\ r.response = P2002Response
           /\ r.created = <<>>
           /\ r.increments = 0
           /\ RowCount(applications, ActingUser, r.jobId) = 1

\* C12: an autoApply that passed its two preconditions always completes with
\* 200: a candidate whose create meets a duplicate error is skipped and every
\* other candidate is still processed, so at the end each candidate has an
\* Application and the ones created by the call are reported.
C12_DuplicateCandidateSkipped ==
    \A s \in AutoApplyRequests :
        LET r == requests[s]
        IN (r.pc = "done" /\ r.response.status \notin {400, 429}) =>
             /\ r.response.status = 200
             /\ \A k \in 1..Len(r.jobsToApply) :
                   HasApplication(ActingUser, r.jobsToApply[k].jobId)
             /\ r.increments = Len(r.created)

\* the matchScore and isHidden of every row of table t, by (userId, jobId)
ScoreAndHidden(t) ==
    {<<row.userId, row.jobId, row.matchScore, row.isHidden>> : row \in BagToSet(t)}

\* two successive toggleFavorite calls of the acting user starting from cache
\* c0, for each job: with no entry the first call creates the favourite
\* placeholder and the second leaves it switched off; with an entry the first
\* call flips isFavorite only and the second restores c0
ToggleFavoriteTwiceFrom(c0) ==
    \A j \in JobIds :
        LET c1 == toggleFavorite(c0, ActingUser, j)
            c2 == toggleFavorite(c1, ActingUser, j)
            e0 == FindCache(c0, ActingUser, j)
        IN IF e0 = None
           THEN /\ c1 = c0 (+) SetToBag({CacheRow(ActingUser, j, 0, TRUE, FALSE)})
                /\ c2 = c0 (+) SetToBag({CacheRow(ActingUser, j, 0, FALSE, FALSE)})
           ELSE /\ c1 = (c0 (-) SetToBag({Val(e0)}))
                          (+) SetToBag({[Val(e0) EXCEPT
                                           !.isFavorite = ~Val(e0).isFavorite]})
                /\ c2 = c0

\* C13: from any reachable cache (the initial one and the one after every
\* step that changes the cache), two successive toggleFavorite calls on a
\* pair with no entry leave the entry (matchScore 0, isFavorite false, not
\* hidden); on a pair with an entry the first call flips isFavorite and the
\* second restores it; and no step of a toggleFavorite request, under any
\* interleaving, changes the matchScore or isHidden of an entry (a created
\* placeholder has matchScore 0 and is not hidden).
C13_ToggleFavoriteTwice ==
    /\ ToggleFavoriteTwiceFrom(jobMatchCache)
    /\ [][jobMatchCache' # jobMatchCache =>
            ToggleFavoriteTwiceFrom(jobMatchCache')]_vars
    /\ [][\A s \in Slots :
            (requests[s].op = "toggleFavorite" /\ requests[s].pc = "tf_write"
               /\ requests'[s] # requests[s]) =>
              \/ ScoreAndHidden(jobMatchCache') = ScoreAndHidden(jobMatchCache)
              \/ ScoreAndHidden(jobMatchCache') =
                    ScoreAndHidden(jobMatchCache)
                       \cup {<<ActingUser, requests[s].jobId, 0, FALSE>>}]_vars

\* a toggleFavorite call found the favourite placeholder an earlier call had
\* created for an unscored job and switched it off again
C13_Witness ==
    \E s \in Slots :
        LET r == requests[s]
        IN /\ r.op = "toggleFavorite"
           /\ r.pc = "done"
           /\ r.response.message = "Job removed from favorites"
           /\ FindCache(jobMatchCache, ActingUser, r.jobId)
                 = Some(CacheRow(ActingUser, r.jobId, 0, FALSE, FALSE))

\* two successive hideJob calls of the acting user starting from cache c0, for
\* each job: the first creates the hidden placeholder when there is no entry,
\* otherwise sets isHidden only; the second changes nothing
HideJobTwiceFrom(c0) ==
    \A j \in JobIds :
        LET c1 == hideJob(c0, ActingUser, j)
            c2 == hideJob(c1, ActingUser, j)
            e0 == FindCache(c0, ActingUser, j)
        IN /\ IF e0 = None
              THEN c1 = c0 (+) SetToBag({CacheRow(ActingUser, j, 0, FALSE, TRUE)})
              ELSE c1 = (c0 (-) SetToBag({Val(e0)}))
                           (+) SetToBag({[Val(e0) EXCEPT !.isHidden = TRUE]})
           /\ c2 = c1

NoSkillOverlap(p, j) ==
    /\ IsSome(p.skills) /\ Val(p.skills) # <<>>
    /\ IsSome(j.skillsRequired) /\ Val(j.skillsRequired) # <<>>
    /\ \A a \in 1..Len(Val(p.skills)), b \in 1..Len(Val(j.skillsRequired)) :
          LET skill == toLowerCase(Val(p.skills)[a])
              req == toLowerCase(Val(j.skillsRequired)[b])
          IN ~includes(skill, req) /\ ~includes(req, skill)

\* C15: when the profile's skills and the job's required skills are both
\* non-empty and no profile skill matches any required skill, the skills
\* sub-score of the fallback result is exactly 0.
C15_NoOverlapScoresZero ==
    (IsSome(result) /\ NoSkillOverlap(profile, job)) =>
        Val(result).details.skillsMatch = 0

\* a scored pair with skills on both sides and none in common
C15_Witness ==
    /\ IsSome(result)
    /\ NoSkillOverlap(profile, job)
    /\ Len(Val(profile.skills)) = 2
    /\ Val(result).details.skillsMatch = 0

\* a preferred role equals the job title up to letter case
RoleEqualsTitle(p, j) ==
    /\ IsSome(p.preferredRoles)
    /\ \E k \in 1..Len(Val(p.preferredRoles)) :
          toLowerCase(Val(p.preferredRoles)[k]) = toLowerCase(j.title)

\* C16: when the preferred-role list contains a string equal to the job title,
\* compared case-insensitively, the title bonus (overallFit) is 100.
C16_EqualTitleScoresHundred ==
    (IsSome(result) /\ RoleEqualsTitle(profile, job)) =>
        Val(result).details.overallFit = 100

\* a scored pair whose second preferred role is the title in another case
C16_Witness ==
    /\ IsSome(result)
    /\ RoleEqualsTitle(profile, job)
    /\ Val(profile.preferredRoles)[2] # job.title
    /\ Val(result).details.overallFit = 100

\* the number of profile skills that match some required skill
SkillMatchCount(p, j) ==
    Cardinality({a \in 1..Len(Val(p.skills)) :
        \E b \in 1..Len(Val(j.skillsRequired)) :
            LET skill == toLowerCase(Val(p.skills)[a])
                req == toLowerCase(Val(j.skillsRequired)[b])
            IN includes(skill, req) \/ includes(req, skill)})

\* the reasons the five dimensions call for, in the order skills, experience,
\* salary, location, title; a dimension triggers when its inputs are present
\* (truthy) and its comparison succeeds
ExpectedReasons(p, j) ==
    LET hasSkills == /\ IsSome(p.skills) /\ Val(p.skills) # <<>>
                     /\ IsSome(j.skillsRequired) /\ Val(j.skillsRequired) # <<>>
        years == IF IsSome(p.experienceYears) THEN Val(p.experienceYears) ELSE 0
        threshold == IF j.experienceLevel = Some("MID") THEN 3
                     ELSE IF j.experienceLevel = Some("SENIOR") THEN 5
                     ELSE IF j.experienceLevel = Some("EXECUTIVE") THEN 8
                     ELSE 0
        wanted == IF IsSome(p.salaryMin) THEN Val(p.salaryMin) ELSE 0
        offered == IF IsSome(j.salaryMax) THEN Val(j.salaryMax) ELSE 0
        hasLocations == /\ IsSome(p.location) /\ Val(p.location) # <<>>
                        /\ IsSome(j.location) /\ Val(j.location) # <<>>
        sameLocation ==
            LET a == toLowerCase(Val(p.location))
                b == toLowerCase(Val(j.location))
            IN includes(a, b) \/ includes(b, a)
        titled == /\ IsSome(p.preferredRoles)
                  /\ \E k \in 1..Len(Val(p.preferredRoles)) :
                        includes(toLowerCase(j.title), toLowerCase(Val(p.preferredRoles)[k]))
    IN (IF hasSkills /\ SkillMatchCount(p, j) > 0
        THEN <<[text |-> "Matches n required skills", n |-> SkillMatchCount(p, j)]>>
        ELSE <<>>)
       \o (IF years > 0 /\ IsSome(j.experienceLevel) /\ years >= threshold
           THEN <<[text |-> "Experience level matches requirements", n |-> 0]>>
           ELSE <<>>)
       \o (IF wanted > 0 /\ offered > 0 /\ wanted <= offered
           THEN <<[text |-> "Salary expectations align", n |-> 0]>>
           ELSE <<>>)
       \o (IF hasLocations /\ sameLocation
           THEN <<[text |-> "Location matches preference", n |-> 0]>>
           ELSE IF hasLocations /\ j.locationType = Some("REMOTE")
           THEN <<[text |-> "Remote position available", n |-> 0]>>
           ELSE <<>>)
       \o (IF titled
           THEN <<[text |-> "Job title matches preferred roles", n |-> 0]>>
           ELSE <<>>)

C19_SubScoresInRange ==
    IsSome(result) =>
        \A f \in {"skillsMatch", "experienceMatch", "salaryMatch", "locationMatch"} :
            Val(result).details[f] \in 0..100

\* C20: every Application an autoApply call has created is for a cache entry
\* of that user that, when the call queried the cache, had matchScore >=
\* autoApplyThreshold and was not hidden; the Application carries that entry's
\* matchScore, and the call's Applications were created in non-increasing
\* matchScore order.
C20_CreatesQualifiedInOrder ==
    \A s \in AutoApplyRequests :
        LET r == requests[s]
            Entry(jobId) == CHOOSE e \in r.eligible : e.jobId = jobId
        IN /\ \A k \in 1..Len(r.created) :
                /\ \E e \in r.eligible : e.jobId = r.created[k]
                /\ Entry(r.created[k]).userId = ActingUser
                /\ Entry(r.created[k]).matchScore >= Val(r.preferences).autoApplyThreshold
                /\ ~Entry(r.created[k]).isHidden
                /\ \E a \in BagToSet(applications) :
                      /\ a.userId = ActingUser
                      /\ a.jobId = r.created[k]
                      /\ a.isAutoApplied
                      /\ a.matchScore = Some(Entry(r.created[k]).matchScore)
           /\ \A a, b \in 1..Len(r.created) :
                a < b => Entry(r.created[a]).matchScore >= Entry(r.created[b]).matchScore

\* a call that created two Applications, the higher-scoring entry first
C20_Witness ==
    \E s \in AutoApplyRequests :
        LET r == requests[s]
        IN /\ r.pc = "done"
           /\ r.response.status = 200
           /\ Len(r.created) = 2
           /\ \E hi, lo \in r.eligible :
                 /\ hi.jobId = r.created[1]
                 /\ lo.jobId = r.created[2]
                 /\ hi.matchScore > lo.matchScore

(***************************************************************************)
(* Further properties of the handlers.                                     *)
(***************************************************************************)
\* C21: when autoApply reaches the create for a candidate that has meanwhile
\* got an Application, the call ends there with the duplicate error (409) and
\* that step changes no table: the Applications the call created for earlier
\* candidates are still there and their job counters keep their increments.
C21_PartialBatchCommitted ==
    [][\A s \in Slots :
         LET r == requests[s]
         IN (/\ r.op = "autoApply"
             /\ r.pc = "aa_create"
             /\ requests'[s] # r
             /\ RowsFor(applications, ActingUser,
                        r.jobsToApply[Len(r.created) + 1].jobId) # {}) =>
              /\ requests'[s].pc = "done"
              /\ requests'[s].response.status = 409
              /\ requests'[s].response.code = "DUPLICATE_ERROR"
              /\ requests'[s].created = r.created
              /\ requests'[s].increments = Len(r.created)
              /\ applications' = applications
              /\ applicationCount' = applicationCount
              /\ \A k \in 1..Len(r.created) :
                    \E a \in RowsFor(applications', ActingUser, r.created[k]) :
                       a.isAutoApplied]_vars

\* an autoApply that created an Application for its first candidate and then
\* failed on the second, for which a direct application had been committed
C21_Witness ==
    \E s \in AutoApplyRequests :
        LET r == requests[s]
        IN /\ r.pc = "done"
           /\ r.response.status = 409
           /\ Len(r.created) = 1
           /\ Len(r.jobsToApply) = 2
           /\ r.increments = 1
           /\ \E a \in RowsFor(applications, ActingUser, r.created[1]) : a.isAutoApplied
           /\ \E a \in RowsFor(applications, ActingUser, r.jobsToApply[2].jobId) :
                 ~a.isAutoApplied

(***************************************************************************)
(* The grouping of batchCalculateMatchScores.                              *)
(***************************************************************************)
\* C22: at most 5 scoring calls are in flight; calls start only when none is
\* in flight, and then they are the next at most 5 jobs after the jobs that
\* have completed; the loop moves on to a further group only when the pause
\* ends; there is a pause only when a further group follows; and the batch
\* returns.
C22_GroupsOfFiveWithPause ==
    /\ [](Cardinality(pending) <= 5)
    /\ [][pending' \ pending # {} =>
            /\ pending = {}
            /\ \A k \in 1..i : jobs[k].id \in DOMAIN results
            /\ pending' = {k \in 1..Len(jobs) : i < k /\ k <= i + 5}]_vars
    /\ [][(i' # i /\ i' < Len(jobs)) => (batchPc = "delay" /\ i' = i + 5)]_vars
    /\ [](batchPc = "delay" => (pending = {} /\ i + 5 < Len(jobs)))
    /\ [][batchPc' = "returned" =>
            (batchPc \in {"loop", "returned"} /\ pending = {}
               /\ \A k \in 1..Len(jobs) : jobs[k].id \in DOMAIN results)]_vars
    /\ <>(batchPc = "returned")

\* the second group is in flight after the first five jobs have completed
C22_Witness ==
    /\ batchPc = "awaitAll"
    /\ i = 5
    /\ pending # {}
    /\ \A k \in 1..5 : jobs[k].id \in DOMAIN results

(***************************************************************************)
(* The day of the daily count (part_010:355-367) at a finer grain than     *)
(* Spec, whose clock counts the server's calendar days.  Instants are      *)
(* counted in half days since the epoch, as the UTC timestamps created_at  *)
(* holds; the server's zone is ahead of UTC by a number of half days.      *)
(***************************************************************************)
TicksPerDay == 2
MaxTick == 3
ZoneOffsets == {0, 1}

\* today.setHours(0, 0, 0, 0): Date.prototype.setHours works in the local
\* time zone of the process, so this is the last local midnight
setHours0(now, offset) == now - ((now + offset) % TicksPerDay)

\* the UTC calendar day an instant falls in
UtcDay(t) == t \div TicksPerDay

\* applications tables: for each job the acting user has no Application, or
\* one created directly or by autoApply at any instant up to now; another
\* user has an auto-applied one created now
TodayTables(now) ==
    { SetToBag({ApplicationRow(OtherUser, "j2", Some(90), TRUE, now)}
               \cup {ApplicationRow(ActingUser, j, Some(60), Val(f[j]).auto, Val(f[j]).at) :
                        j \in {x \in JobIds : IsSome(f[x])}}) :
        f \in [JobIds -> Optional([auto : BOOLEAN, at : 0..now])] }

InitToday ==
    /\ profile = UserProfileRow
    /\ job = BatchPosting(1)
    /\ aiOutcome = NoCall
    /\ result = None
    /\ raised = FALSE
    /\ BatchIdle
    /\ clock \in 0..MaxTick
    /\ applications \in TodayTables(clock)
    /\ jobMatchCache = OtherUserCache
    /\ userPreferences = [u \in {ActingUser} |-> Some(PreferencesRow(TRUE, 50, 2))]
    /\ applicationCount = [j \in JobIds |-> 1]
    /\ requests = [s \in Slots |-> IF s = 1 THEN NewRequest("autoApply", "aa_today", NoJob)
                                    ELSE IdleRequest]
    /\ started = 1

\* const today = new Date(); today.setHours(0, 0, 0, 0);
\* const dailyCount = await prisma.application.count(...)
CountToday ==
    /\ requests[1].pc = "aa_today"
    /\ \E offset \in ZoneOffsets :
         LET today == setHours0(clock, offset)
         IN requests' = [requests EXCEPT ![1] =
                [@ EXCEPT !.today = Some(today),
                          !.dailyCount = Some(CountAutoAppliedSince(ActingUser, today)),
                          !.pc = "aa_counted"]]
    /\ UNCHANGED <<applications, jobMatchCache, userPreferences, applicationCount,
                   clock, started>>
    /\ UNCHANGED scorerVars
    /\ UNCHANGED batchVars

NextToday == CountToday

SpecToday == InitToday /\ [][NextToday]_vars

\* C23: the dailyCount autoApply computes is the number of the acting user's
\* Applications with isAutoApplied = true whose createdAt lies in the UTC
\* calendar day of the current instant.
C23_CountsUtcDay ==
    requests[1].pc = "aa_counted" =>
        Val(requests[1].dailyCount) =
            SumCopies({a \in BagToSet(applications) :
                          /\ a.userId = ActingUser
                          /\ a.isAutoApplied
                          /\ UtcDay(a.createdAt) = UtcDay(clock)},
                      applications)

(***************************************************************************)
(* Further properties of the fallback scorer.                              *)
(***************************************************************************)
\* C24: the score the fallback returns is round(0.4*skills + 0.2*experience
\* + 0.2*salary + 0.1*location + 0.1*title bonus) of the sub-scores in its
\* details, and a dimension one of whose inputs is absent has sub-score 0.
C24_ScoreIsWeightedSum ==
    IsSome(result) =>
        LET d == Val(result).details
        IN /\ Val(result).score =
                 Num(RoundDiv(4 * d.skillsMatch + 2 * d.experienceMatch
                                + 2 * d.salaryMatch + d.locationMatch + d.overallFit,
                              10))
           /\ (profile.skills = None \/ job.skillsRequired = None) => d.skillsMatch = 0
           /\ (profile.experienceYears = None \/ job.experienceLevel = None) =>
                 d.experienceMatch = 0
           /\ (profile.salaryMin = None \/ job.salaryMax = None) => d.salaryMatch = 0
           /\ (profile.location = None \/ job.location = None) => d.locationMatch = 0
           /\ profile.preferredRoles = None => d.overallFit = 0

\* a result with four positive sub-scores of different weights and the
\* experience dimension absent: round(0.4*50 + 0.2*80 + 0.1*80 + 0.1*100) = 54
C24_Witness ==
    /\ IsSome(result)
    /\ job.experienceLevel = None
    /\ Val(result).details =
          [ skillsMatch |-> 50, experienceMatch |-> 0, salaryMatch |-> 80,
            locationMatch |-> 80, overallFit |-> 100 ]
    /\ Val(result).score = Num(54)

\* the profile location and the job location are both given and equal, or one
\* contains the other, letter case aside
LocationsMatch(p, j) ==
    /\ IsSome(p.location)
    /\ IsSome(j.location)
    /\ \/ toLowerCase(Val(p.location)) = toLowerCase(Val(j.location))
       \/ includes(toLowerCase(Val(j.location)), toLowerCase(Val(p.location)))
       \/ includes(toLowerCase(Val(p.location)), toLowerCase(Val(j.location)))

\* C25: for every profile and job the location sub-score is 100 if the two
\* locations match, otherwise 80 if the job's location type is remote,
\* otherwise 0.
C25_LocationSubScore ==
    IsSome(result) =>
        Val(result).details.locationMatch =
            IF LocationsMatch(profile, job) THEN 100
            ELSE IF job.locationType = Some("REMOTE") THEN 80
            ELSE 0

\* the minimum years of an experience level
LevelThreshold(level) ==
    CASE level = "ENTRY" -> 0
      [] level = "MID" -> 3
      [] level = "SENIOR" -> 5
      [] level = "EXECUTIVE" -> 8

\* C26: for every profile with experience years >= 0 and every job with an
\* experience level, the experience sub-score is 100 when the years reach the
\* level's threshold and round(years / threshold * 100) otherwise (so 100 for
\* every entry-level job).
C26_ExperienceSubScore ==
    (/\ IsSome(result)
     /\ IsSome(profile.experienceYears)
     /\ Val(profile.experienceYears) >= 0
     /\ IsSome(job.experienceLevel)) =>
        LET years == Val(profile.experienceYears)
            threshold == LevelThreshold(Val(job.experienceLevel))
        IN Val(result).details.experienceMatch =
              IF years >= threshold THEN 100
              ELSE RoundDiv(years * 100, threshold)

(***************************************************************************)
(* autoApply called once a day, with nothing else running: the cache and   *)
(* the preferences stay as they are.  Only createdAt >= today is ever      *)
(* asked of a date, so at midnight the Applications of the ending day      *)
(* become Applications of an earlier day and the day number stays.         *)
(***************************************************************************)
DailyPreferences == {Some(PreferencesRow(TRUE, 50, mx)) : mx \in {1, 2}}

InitDaily ==
    /\ profile = UserProfileRow
    /\ job = BatchPosting(1)
    /\ aiOutcome = NoCall
    /\ result = None
    /\ raised = FALSE
    /\ BatchIdle
    /\ applications = OtherUserApplications
    /\ jobMatchCache \in InitCaches
    /\ userPreferences \in [{ActingUser} -> DailyPreferences]
    /\ applicationCount = [j \in JobIds |-> IF j = "j2" THEN 1 ELSE 0]
    /\ clock = 1
    /\ requests = [s \in Slots |-> IdleRequest]
    /\ started = 0

\* the day's call arrives
DailyReceive ==
    /\ requests[1].pc = "idle"
    /\ SetRequest(1, NewRequest("autoApply", "aa_prefs", NoJob))
    /\ UNCHANGED <<applications, jobMatchCache, userPreferences, applicationCount,
                   clock, started>>
    /\ UNCHANGED scorerVars
    /\ UNCHANGED batchVars

\* the day's call has been answered and midnight passes
Midnight ==
    /\ requests[1].pc = "done"
    /\ requests' = [requests EXCEPT ![1] = IdleRequest]
    /\ applications' = UpdateRows(applications, BagToSet(applications),
                                  LAMBDA a : [a EXCEPT !.createdAt = 0], EmptyBag)
    /\ UNCHANGED <<jobMatchCache, userPreferences, applicationCount, clock, started>>
    /\ UNCHANGED scorerVars
    /\ UNCHANGED batchVars

NextDaily ==
    \/ DailyReceive
    \/ AutoApplyPreferences(1)
    \/ AutoApplyCount(1)
    \/ AutoApplyMatch(1)
    \/ AutoApplyExisting(1)
    \/ AutoApplyCreate(1)
    \/ AutoApplyIncrement(1)
    \/ Midnight

\* the call of each day is made and runs to its response, and days pass
SpecDaily == InitDaily /\ [][NextDaily]_vars /\ WF_vars(NextDaily)

\* C27: with autoApply called once on each successive day, eventually every
\* cache entry of the user that is not hidden and has matchScore >=
\* autoApplyThreshold has an Application.
C27_NoEligibleJobStarved ==
    <>(\A m \in MatchCandidates(ActingUser,
                                 Val(userPreferences[ActingUser]).autoApplyThreshold) :
          HasApplication(ActingUser, m.jobId))

(***************************************************************************)
(* The job counters, the placeholders and concurrent toggles.              *)
(***************************************************************************)
\* requests that have created an Application for job j and have not yet
\* incremented the job's counter
PendingIncrements(j) ==
    {s \in Slots : /\ requests[s].pc \in {"ca_count", "aa_incr"}
                   /\ requests[s].created[Len(requests[s].created)] = j}

\* the Applications for job j, of all users
ApplicationsFor(j) ==
    SumCopies({a \in BagToSet(applications) : a.jobId = j}, applications)

\* C28: each job's applicationCount is the number of Applications created
\* for it (the counters start at the number of Applications there are, and
\* no Application is ever removed), less the creates whose increment is
\* still to come; so with every call completed the counter has grown by one
\* per created Application, a rejected duplicate added nothing and a
\* withdrawal took nothing away.  A completed call has incremented once per
\* Application it created.
C28_CountFollowsCreations ==
    /\ \A j \in JobIds :
          applicationCount[j] + Cardinality(PendingIncrements(j)) = ApplicationsFor(j)
    /\ \A s \in Slots :
          requests[s].pc = "done" => requests[s].increments = Len(requests[s].created)

\* every call has completed; one created an Application directly and a later
\* one withdrew it, and the job's counter still counts it
C28_Witness ==
    /\ \A s \in Slots : requests[s].pc = "done"
    /\ \E s, t \in Slots :
          /\ requests[s].op = "createApplication"
          /\ requests[s].response.status = 201
          /\ requests[t].op = "deleteApplication"
          /\ requests[t].response.status = 200
          /\ requests[t].jobId = requests[s].jobId
          /\ \E a \in RowsFor(applications, ActingUser, requests[s].jobId) :
                a.status = "WITHDRAWN"
          /\ applicationCount[requests[s].jobId] = ApplicationsFor(requests[s].jobId)

\* C29: no Application created by autoApply comes from a zero-score
\* placeholder: the placeholders are the only cache entries with matchScore
\* 0, and autoApply copies the entry's matchScore into the Application.
C29_PlaceholderNeverApplied ==
    \A a \in BagToSet(applications) :
        (a.userId = ActingUser /\ a.isAutoApplied) => a.matchScore # Some(0)

\* C30: when the only two requests so far are toggleFavorite requests of the
\* user for one existing job that overlapped in time, and both have been
\* answered, both were answered 200 and the entry's isFavorite is what it was
\* before them: false, as in every initial cache, with or without an entry.
C30_ConcurrentTogglesCancel ==
    (/\ started = 2
     /\ \A s \in Slots : requests[s].op = "toggleFavorite" /\ requests[s].pc = "done"
     /\ requests[1].jobId = requests[2].jobId
     /\ JobExists(requests[1].jobId)) =>
        /\ \A s \in Slots : requests[s].response.status = 200
        /\ IsSome(FindCache(jobMatchCache, ActingUser, requests[1].jobId))
        /\ ~Val(FindCache(jobMatchCache, ActingUser, requests[1].jobId)).isFavorite

====
